---- MODULE Spec2Model ----
(***************************************************************************)
(* Employee CRUD service: request validation (app/schemas), request        *)
(* handlers (app/api), persistence service (app/services) and the          *)
(* employees table (app/models) on SQLite.  Every request runs in its own  *)
(* session; a handler is split into steps at the awaits that reach the     *)
(* store (select / commit / refresh).                                      *)
(***************************************************************************)
EXTENDS Integers, Sequences, FiniteSets, TLC

(* ------------------------------ bounds --------------------------------- *)
NumClients == 2
MaxRequests == 2
MaxClock == 2
MaxOver == 1

(* ------------------------- schema constants ---------------------------- *)
NameMaxLength == 100
NameMinLength == 1
DepartmentMaxLength == 50
DepartmentMinLength == 1
SalaryExclusiveMin == 0

HTTP_200_OK == 200
HTTP_201_CREATED == 201
HTTP_204_NO_CONTENT == 204
HTTP_404_NOT_FOUND == 404
HTTP_422_UNPROCESSABLE == 422
HTTP_500_INTERNAL == 500

Clients == 1..NumClients
PathIds == {1, 2}

(* ----------------------------- payloads -------------------------------- *)
\* A JSON body is the set of keys it carries (set), the keys whose value is
\* null (nulls) and the values of the others; a key that is absent or null
\* carries the filler "" / 0 so that equal bodies are equal records.
SchemaFields == {"name", "email", "department", "salary"}
ExtraKeys == {"id", "created_at"}
BodyKeys == SchemaFields \cup ExtraKeys

LocalParts == {"a", "b"}
MailDomains == {"x.io"}

NameInputs == {"Ann", "Bob"}
EmailInputs == {"a@x.io", "b@x.io", "nobody"}
DepartmentInputs == {"Eng", "eng"}
SalaryInputs == {5, 7, 0, -1}
ExtraIdInputs == {2}
ExtraCreatedAtInputs == {0}

Val(k, set, nulls, v, filler) == IF k \in set \ nulls THEN v ELSE filler

Body(set, nulls, n, e, d, s, i, c) ==
    [set |-> set, nulls |-> nulls,
     name |-> Val("name", set, nulls, n, ""),
     email |-> Val("email", set, nulls, e, ""),
     department |-> Val("department", set, nulls, d, ""),
     salary |-> Val("salary", set, nulls, s, 0),
     id |-> Val("id", set, nulls, i, 0),
     created_at |-> Val("created_at", set, nulls, c, 0)]

(* ---------------------------- validation ------------------------------- *)
\* EmailStr: local part, "@", domain.
IsEmailStr(e) == \E l \in LocalParts, d \in MailDomains : e = l \o "@" \o d

\* Variant: salary declared ge=0.
ConstraintOk_SalaryGe(k, b) ==
    CASE k = "name" -> Len(b.name) >= NameMinLength /\ Len(b.name) <= NameMaxLength
      [] k = "email" -> IsEmailStr(b.email)
      [] k = "department" -> Len(b.department) >= DepartmentMinLength
                               /\ Len(b.department) <= DepartmentMaxLength
      [] k = "salary" -> b.salary >= SalaryExclusiveMin

\* Field(..., min_length, max_length) / Field(..., gt=0) / EmailStr on a
\* value that is present and not null.
ConstraintOk(k, b) ==
    CASE k = "name" -> Len(b.name) >= NameMinLength /\ Len(b.name) <= NameMaxLength
      [] k = "email" -> IsEmailStr(b.email)
      [] k = "department" -> Len(b.department) >= DepartmentMinLength
                               /\ Len(b.department) <= DepartmentMaxLength
      [] k = "salary" -> b.salary > SalaryExclusiveMin

\* EmployeeCreate (EmployeeBase): every field required, not nullable.
EmployeeCreateErrors(b) ==
    { k \in SchemaFields : k \notin b.set \/ k \in b.nulls \/ ~ConstraintOk(k, b) }

\* EmployeeUpdate: every field Optional with default None; a supplied null
\* passes, a supplied value is checked.
EmployeeUpdateErrors(b) ==
    { k \in SchemaFields : k \in b.set /\ k \notin b.nulls /\ ~ConstraintOk(k, b) }

\* Variant: model_dump() without exclude_unset.
UpdateDataKeys_AllFields(b) == SchemaFields

\* Variant: a schema that lets every key of the body through.
UpdateDataKeys_WithExtras(b) == b.set

\* model_dump(exclude_unset=True): the declared fields that were supplied.
UpdateDataKeys(b) == b.set \cap SchemaFields

(* ------------------- validation of a create body ----------------------- *)
\* "a" * n
RECURSIVE Repeat(_, _)
Repeat(c, n) == IF n = 0 THEN "" ELSE Repeat(c, n - 1) \o c

\* Lengths around the limits min..max.
LengthInputs(min, max) == {min - 1, min, max} \cup (max + 1 .. max + MaxOver)

\* Create bodies with every field absent, null, on a limit or beyond it.
ValidationInputs ==
    { Body(set, nulls, Repeat("a", n), e, Repeat("d", d), s, 0, 0) :
        set \in SUBSET SchemaFields,
        nulls \in {{}} \cup {{"name"}, {"salary"}},
        n \in LengthInputs(NameMinLength, NameMaxLength),
        e \in {"a@x.io", "nobody"},
        d \in LengthInputs(DepartmentMinLength, DepartmentMaxLength),
        s \in {5, 0, -1} }

\* The fields of EmployeeCreate in the order they are declared.
CreateFieldOrder == <<"name", "email", "department", "salary">>

\* A required field fails when it is missing, null or against its Field.
FieldFails(k, b) == k \notin b.set \/ k \in b.nulls \/ ~ConstraintOk(k, b)

\* Variant: validation stops at the first field that fails.
Checked_ShortCircuit(errors, k, b) ==
    IF errors = {} /\ FieldFails(k, b) THEN errors \cup {k} ELSE errors

\* The errors collected once field k has been validated: the validator
\* goes on after a failure and reports every failing field.
Checked(errors, k, b) == IF FieldFails(k, b) THEN errors \cup {k} ELSE errors

\* A body whose validation starts.
Validating(b) ==
    [body |-> b, todo |-> CreateFieldOrder, errors |-> {}, status |-> "checking"]

NoValidation == Validating(Body({}, {}, "", "", "", 0, 0, 0))

(* ------------------------------ inputs --------------------------------- *)
\* The request bodies the clients send.
CreateInputs ==
    { Body(SchemaFields, {}, "Ann", e, IF e = "b@x.io" THEN "eng" ELSE "Eng", 5, 0, 0) :
        e \in EmailInputs }
      \cup { Body(SchemaFields, {}, "Ann", "b@x.io", "Eng", s, 0, 0) : s \in {0, -1} }

UpdateInputs ==
    { Body({}, {}, "", "", "", 0, 0, 0) }
      \cup { Body({"salary"}, {}, "", "", "", s, 0, 0) : s \in SalaryInputs }
      \cup { Body({k}, {k}, "", "", "", 0, 0, 0) : k \in {"name", "salary"} }
      \cup { Body({"name"}, {}, "Bob", "", "", 0, 0, 0),
             Body({"email"}, {}, "", "b@x.io", "", 0, 0, 0) }
      \cup { Body(ExtraKeys, {}, "", "", "", 0, i, c) :
               i \in ExtraIdInputs, c \in ExtraCreatedAtInputs }

EmptyBody == Body({}, {}, "", "", "", 0, 0, 0)

(* ------------------------------- state --------------------------------- *)
VARIABLES
    store,      \* the employees table: a set of rows
    clock,      \* the store's CURRENT_TIMESTAMP at its latest statement
    pc,         \* per client: the await its request is suspended at
    req,        \* per client: the request in flight and its session's entity
    sent,       \* the response the latest step sent (if any) and its request
    issued,     \* ids returned by successful creates, in order
    nreq,       \* requests received so far
    validation  \* the create body under validation, field by field

vars == <<store, clock, pc, req, sent, issued, nreq, validation>>

\* A request: its operation, path id (for a create: the id of the inserted
\* row), body, the entity its session has loaded and the number of
\* statements it has sent to the store.
Request(op, id, b, ent, sql) ==
    [op |-> op, id |-> id, body |-> b, ent |-> ent, sql |-> sql]

NoReq == Request("none", 0, EmptyBody, <<>>, 0)

Response(status, detail, body) == [status |-> status, detail |-> detail, body |-> body]

NoResp == Response(0, "", <<>>)

\* The step sent no response.
Nothing == [client |-> 0, req |-> NoReq, resp |-> NoResp]

(* ------------------------------ the table ------------------------------ *)
SetMax(S) == CHOOSE m \in S : \A x \in S : x <= m

\* id = Column(Integer, primary_key=True, autoincrement=True) on SQLite:
\* rendered as INTEGER PRIMARY KEY, whose new rowid is one more than the
\* largest rowid in the table.
NextId(rows) == IF rows = {} THEN 1 ELSE SetMax({ r.id : r \in rows }) + 1

\* select(Employee).where(Employee.id == employee_id); scalar_one_or_none()
get_employee(rows, id) == { r \in rows : r.id = id }

TheRow(rows, id) == CHOOSE r \in rows : r.id = id

\* Variant: the delete is never flushed.
RowsAfterDelete_Kept(rows, id) == rows

\* DELETE FROM employees WHERE id = ?
RowsAfterDelete(rows, id) == rows \ get_employee(rows, id)

\* Variant: email declared without unique=True.
EmailTaken_NoUniqueIndex(rows, email, exceptId) == FALSE

\* unique=True on email
EmailTaken(rows, email, exceptId) ==
    \E r \in rows : r.email = email /\ r.id # exceptId

\* select(Employee): rows in rowid order
RECURSIVE RowsInOrder(_)
RowsInOrder(rows) ==
    IF rows = {} THEN <<>>
    ELSE LET m == SetMax({ r.id : r \in rows })
             top == { r \in rows : r.id = m }
         IN RowsInOrder(rows \ top) \o <<TheRow(rows, m)>>

\* Variant: name and department are stored in each other's column.
NewRow_Swapped(id, b, now) ==
    [id |-> id, name |-> b.department, email |-> b.email, department |-> b.name,
     salary |-> b.salary, created_at |-> now, updated_at |-> now]

\* Employee(**employee_data.model_dump()) as inserted: server defaults fill
\* created_at and updated_at.
NewRow(id, b, now) ==
    [id |-> id, name |-> b.name, email |-> b.email, department |-> b.department,
     salary |-> b.salary, created_at |-> now, updated_at |-> now]

\* Attributes whose pending value differs from the loaded one: the columns
\* the flush puts in the UPDATE's SET clause.
ChangedKeys(ent, b) ==
    { k \in UpdateDataKeys(b) :
        \/ k \in b.nulls
        \/ CASE k = "name" -> b.name # ent.name
             [] k = "email" -> b.email # ent.email
             [] k = "department" -> b.department # ent.department
             [] k = "salary" -> b.salary # ent.salary
             [] k = "id" -> b.id # ent.id
             [] k = "created_at" -> b.created_at # ent.created_at }

\* Variant: the columns declared without nullable=False.
NullRefused_Nullable(changed, b) == FALSE

\* nullable=False on name, email, department and salary: an UPDATE that
\* sets one of them to NULL is refused.
NullRefused(changed, b) == changed \cap b.nulls # {}

\* Variant: updated_at declared without onupdate.
OnUpdate_Missing(row, now) == row

\* onupdate=func.now(): an emitted UPDATE also sets updated_at.
OnUpdate(row, now) == [row EXCEPT !.updated_at = now]

\* Variant: the flush writes every column of the session's copy.
RowToUpdate_SessionCopy(row, ent) == ent

\* The row an UPDATE starts from: the stored row, whose columns outside
\* the SET clause keep their stored values (not the session's copy).
RowToUpdate(row, ent) == row

\* UPDATE employees SET <changed columns>, updated_at=now WHERE id = ?
UpdatedRow(row, b, changed, now) ==
    OnUpdate([row EXCEPT
        !.name = IF "name" \in changed THEN b.name ELSE @,
        !.email = IF "email" \in changed THEN b.email ELSE @,
        !.department = IF "department" \in changed THEN b.department ELSE @,
        !.salary = IF "salary" \in changed THEN b.salary ELSE @,
        !.id = IF "id" \in changed THEN b.id ELSE @,
        !.created_at = IF "created_at" \in changed THEN b.created_at ELSE @], now)

(* ---------------------------- the handlers ----------------------------- *)
\* Variant: another detail text.
NotFound_OtherDetail == Response(HTTP_404_NOT_FOUND, "Not Found", <<>>)

\* raise HTTPException(status_code=404, detail="Employee not found")
NotFound == Response(HTTP_404_NOT_FOUND, "Employee not found", <<>>)

\* RequestValidationError raised by the framework for the body parameter
Unprocessable == Response(HTTP_422_UNPROCESSABLE, "validation", <<>>)

\* Variant: the handler maps a failure of the service to NotFound.
ServerError_AsNotFound(exc) == Response(HTTP_404_NOT_FOUND, "Employee not found", <<>>)

\* An exception no handler catches
ServerError(exc) == Response(HTTP_500_INTERNAL, exc, <<>>)

\* get_employee_by_id: 404 when the service returns None, else the row
GetResult(rows, id) ==
    IF get_employee(rows, id) = {} THEN NotFound
    ELSE Response(HTTP_200_OK, "", <<TheRow(rows, id)>>)

\* Variant: the select orders the rows newest first.
ListResult_NewestFirst(rows) ==
    LET l == RowsInOrder(rows)
    IN Response(HTTP_200_OK, "", [i \in 1..Len(l) |-> l[Len(l) + 1 - i]])

\* get_all_employees: the rows the service lists
ListResult(rows) == Response(HTTP_200_OK, "", RowsInOrder(rows))

\* create_employee(employee: EmployeeCreate, ...) then the service's check
\* `if employee_data.salary and employee_data.salary < 0`.
CreateOutcome(b) ==
    IF EmployeeCreateErrors(b) # {} THEN "422"
    ELSE IF b.salary # 0 /\ b.salary < 0 THEN "ValueError"
    ELSE "commit"

\* Variant: the body is validated after the row has been looked up.
UpdateOutcome_LookupFirst(rows, id, b) ==
    IF get_employee(rows, id) = {} THEN "404"
    ELSE IF EmployeeUpdateErrors(b) # {} THEN "422"
    ELSE IF "salary" \in UpdateDataKeys(b) /\ "salary" \in b.nulls THEN "TypeError"
    ELSE IF "salary" \in UpdateDataKeys(b) /\ b.salary < 0 THEN "ValueError"
    ELSE "commit"

\* update_employee(employee_id, employee_update: EmployeeUpdate, ...): the
\* body is validated before the handler runs; the service then loads the
\* row, returns None when there is none, and checks
\* `'salary' in update_data and update_data['salary'] < 0`, which raises
\* TypeError on None.
UpdateOutcome(rows, id, b) ==
    IF EmployeeUpdateErrors(b) # {} THEN "422"
    ELSE IF get_employee(rows, id) = {} THEN "404"
    ELSE IF "salary" \in UpdateDataKeys(b) /\ "salary" \in b.nulls THEN "TypeError"
    ELSE IF "salary" \in UpdateDataKeys(b) /\ b.salary < 0 THEN "ValueError"
    ELSE "commit"

\* Statements the request has sent to the store once the outcome is known.
Statements(outcome) == IF outcome = "422" THEN 0 ELSE 1

(* ------------------------------- actions ------------------------------- *)
\* The row an earlier run of the service has left in employees.db.
SeedRow == NewRow(1, Body(SchemaFields, {}, "Ann", "a@x.io", "Eng", 5, 0, 0), 1)

\* create_tables_if_not_exist keeps the rows of the database file: the
\* table starts empty or with the row of one earlier create.
Init ==
    /\ \/ store = {} /\ issued = <<>>
       \/ store = {SeedRow} /\ issued = <<SeedRow.id>>
    /\ clock = 1
    /\ pc = [p \in Clients |-> "idle"]
    /\ req = [p \in Clients |-> NoReq]
    /\ sent = Nothing
    /\ nreq = 0
    /\ validation = NoValidation

\* A client sends a request when it has none in flight.
Accept(p) ==
    /\ pc[p] = "idle"
    /\ nreq < MaxRequests
    /\ nreq' = nreq + 1

\* The handler returns or raises: the response is sent and get_db closes
\* the session.
Reply(p, rq, r) ==
    /\ pc' = [pc EXCEPT ![p] = "idle"]
    /\ req' = [req EXCEPT ![p] = NoReq]
    /\ sent' = [client |-> p, req |-> rq, resp |-> r]
    /\ UNCHANGED validation

\* The handler waits for the store at an await.
Suspend(p, rq, at) ==
    /\ pc' = [pc EXCEPT ![p] = at]
    /\ req' = [req EXCEPT ![p] = rq]
    /\ sent' = Nothing
    /\ UNCHANGED validation

\* func.now() as a statement reads it: the time of the previous statement
\* or later.
Now == { t \in {clock, clock + 1} : t <= MaxClock }

\* POST /api/employees/ up to the commit.
create_employee(p, b) ==
    LET outcome == CreateOutcome(b)
        rq == Request("create", 0, b, <<>>, 0)
    IN
    /\ Accept(p)
    /\ CASE outcome = "422" -> Reply(p, rq, Unprocessable)
         [] outcome = "ValueError" -> Reply(p, rq, ServerError("ValueError"))
         [] outcome = "commit" -> Suspend(p, rq, "create_commit")
    /\ UNCHANGED <<store, clock, issued>>

\* db.add(employee); await db.commit(): INSERT, refused by the unique index
\* on email; the session keeps the inserted entity (expire_on_commit=False).
CreateCommit(p, now) ==
    /\ pc[p] = "create_commit"
    /\ clock' = now
    /\ IF EmailTaken(store, req[p].body.email, 0)
         THEN /\ Reply(p, [req[p] EXCEPT !.sql = @ + 1], ServerError("IntegrityError"))
              /\ UNCHANGED store
         ELSE LET id == NextId(store)
                  row == NewRow(id, req[p].body, now)
              IN
              /\ store' = store \cup {row}
              /\ Suspend(p, [req[p] EXCEPT !.id = id, !.ent = <<row>>, !.sql = @ + 1],
                         "create_refresh")
    /\ UNCHANGED <<issued, nreq>>

\* await db.refresh(employee); return employee (201)
CreateRefresh(p) ==
    LET rq == [req[p] EXCEPT !.sql = @ + 1] IN
    /\ pc[p] = "create_refresh"
    /\ IF get_employee(store, req[p].id) = {}
         THEN /\ Reply(p, rq, ServerError("InvalidRequestError"))
              /\ UNCHANGED issued
         ELSE /\ Reply(p, rq, Response(HTTP_201_CREATED, "", <<TheRow(store, req[p].id)>>))
              /\ issued' = Append(issued, req[p].id)
    /\ UNCHANGED <<store, clock, nreq>>

\* GET /api/employees/{employee_id}
get_employee_by_id(p, id) ==
    /\ Accept(p)
    /\ Reply(p, Request("get", id, EmptyBody, <<>>, 1), GetResult(store, id))
    /\ UNCHANGED <<store, clock, issued>>

\* GET /api/employees/
get_all_employees(p) ==
    /\ Accept(p)
    /\ Reply(p, Request("list", 0, EmptyBody, <<>>, 1), ListResult(store))
    /\ UNCHANGED <<store, clock, issued>>

\* PUT /api/employees/{employee_id} up to the commit; on "commit" the
\* supplied attributes have been set on the loaded entity.
update_employee(p, id, b) ==
    LET outcome == UpdateOutcome(store, id, b)
        rq == Request("update", id, b,
                      IF outcome = "commit" THEN <<TheRow(store, id)>> ELSE <<>>,
                      Statements(outcome))
    IN
    /\ Accept(p)
    /\ CASE outcome = "422" -> Reply(p, rq, Unprocessable)
         [] outcome = "404" -> Reply(p, rq, NotFound)
         [] outcome = "TypeError" -> Reply(p, rq, ServerError("TypeError"))
         [] outcome = "ValueError" -> Reply(p, rq, ServerError("ValueError"))
         [] outcome = "commit" -> Suspend(p, rq, "update_commit")
    /\ UNCHANGED <<store, clock, issued>>

\* await db.commit() of an update: the flush emits an UPDATE for the
\* attributes with a net change (none: no statement), keyed by the loaded
\* primary key; no matching row is a StaleDataError, a NULL or a duplicate
\* email an IntegrityError.
UpdateCommit(p, now) ==
    /\ pc[p] = "update_commit"
    /\ clock' = now
    /\ LET ent == req[p].ent[1]
           b == req[p].body
           changed == ChangedKeys(ent, b)
           target == get_employee(store, ent.id)
           rq == [req[p] EXCEPT !.sql = @ + 1]
       IN IF changed = {}
            THEN /\ Suspend(p, rq, "update_refresh")
                 /\ UNCHANGED store
          ELSE IF target = {}
            THEN /\ Reply(p, rq, ServerError("StaleDataError"))
                 /\ UNCHANGED store
          ELSE IF NullRefused(changed, b)
                  \/ ("email" \in changed /\ EmailTaken(store, b.email, ent.id))
            THEN /\ Reply(p, rq, ServerError("IntegrityError"))
                 /\ UNCHANGED store
          ELSE /\ store' = (store \ target)
                              \cup {UpdatedRow(RowToUpdate(TheRow(store, ent.id), ent),
                                               b, changed, now)}
               /\ Suspend(p, rq, "update_refresh")
    /\ UNCHANGED <<issued, nreq>>

\* await db.refresh(employee); return employee (200)
UpdateRefresh(p) ==
    LET rq == [req[p] EXCEPT !.sql = @ + 1] IN
    /\ pc[p] = "update_refresh"
    /\ IF get_employee(store, req[p].id) = {}
         THEN Reply(p, rq, ServerError("InvalidRequestError"))
         ELSE Reply(p, rq, Response(HTTP_200_OK, "", <<TheRow(store, req[p].id)>>))
    /\ UNCHANGED <<store, clock, issued, nreq>>

\* DELETE /api/employees/{employee_id} up to the commit: the service loads
\* the row and returns False when there is none.
delete_employee(p, id) ==
    LET rq == Request("delete", id, EmptyBody, <<>>, 1) IN
    /\ Accept(p)
    /\ IF get_employee(store, id) = {}
         THEN Reply(p, rq, NotFound)
         ELSE Suspend(p, rq, "delete_commit")
    /\ UNCHANGED <<store, clock, issued>>

\* await db.delete(employee); await db.commit(): DELETE keyed by the loaded
\* primary key; a DELETE that matches no row only warns.
DeleteCommit(p) ==
    /\ pc[p] = "delete_commit"
    /\ store' = RowsAfterDelete(store, req[p].id)
    /\ Reply(p, [req[p] EXCEPT !.sql = @ + 1], Response(HTTP_204_NO_CONTENT, "", <<>>))
    /\ UNCHANGED <<clock, issued, nreq>>

\* The requests of the clients in C, interleaved at their awaits.
Serve(C) ==
    \/ \E p \in C, b \in CreateInputs : create_employee(p, b)
    \/ \E p \in C, now \in Now : CreateCommit(p, now)
    \/ \E p \in C : CreateRefresh(p)
    \/ \E p \in C, id \in PathIds : get_employee_by_id(p, id)
    \/ \E p \in C : get_all_employees(p)
    \/ \E p \in C, id \in PathIds, b \in UpdateInputs : update_employee(p, id, b)
    \/ \E p \in C, now \in Now : UpdateCommit(p, now)
    \/ \E p \in C : UpdateRefresh(p)
    \/ \E p \in C, id \in PathIds : delete_employee(p, id)
    \/ \E p \in C : DeleteCommit(p)

Next == Serve(Clients)

\* EmployeeCreate validates its next field.
ValidateField ==
    /\ validation.todo # <<>>
    /\ validation' = [validation EXCEPT
                        !.errors = Checked(@, Head(validation.todo), validation.body),
                        !.todo = Tail(@)]
    /\ UNCHANGED <<store, clock, pc, req, sent, issued, nreq>>

\* All fields validated: RequestValidationError (422) when a field failed,
\* else the handler is called with the model.
ValidateDone ==
    /\ validation.todo = <<>> /\ validation.status = "checking"
    /\ validation' = [validation EXCEPT
                        !.status = IF validation.errors # {} THEN "422" ELSE "accepted"]
    /\ UNCHANGED <<store, clock, pc, req, sent, issued, nreq>>

InitValidation ==
    /\ store = {} /\ issued = <<>>
    /\ clock = 1
    /\ pc = [p \in Clients |-> "idle"]
    /\ req = [p \in Clients |-> NoReq]
    /\ sent = Nothing
    /\ nreq = 0
    /\ validation \in { Validating(b) : b \in ValidationInputs }

NextValidation == ValidateField \/ ValidateDone

\* The validation of one create body, whatever the body.
SpecValidation == InitValidation /\ [][NextValidation]_vars

Spec == Init /\ [][Next]_vars

\* One client: every request is answered before the next one is sent.
NextSequential == Serve({1})

SpecSequential == Init /\ [][NextSequential]_vars

(* ------------------------------ properties ----------------------------- *)
\* The request client p has in flight after the step, or the one the step
\* answered to p.
Arrival(p) == IF sent'.client = p THEN sent'.req ELSE req'[p]

\* The step receives a request of client p.
Received(p) ==
    /\ nreq' = nreq + 1
    /\ pc[p] = "idle"
    /\ sent'.client = p \/ pc'[p] # "idle"

\* The step sends a response to client p.
Answered(p) == sent'.client = p

\* The body carries key k with a value that is not null.
Supplied(b, k) == k \in b.set /\ k \notin b.nulls

\* The latest step answered an op request with the given status.
SentIs(op, status) == sent.req.op = op /\ sent.resp.status = status

\* C1: every successful create returns an id that no earlier successful
\* create returned, also when the earlier record has been deleted.
C1_IdNeverReused ==
    \A i, j \in 1..Len(issued) : i # j => issued[i] # issued[j]

\* C2: in every reachable state no two live employee rows have the same
\* email, whatever the interleaving of creates, updates and deletes.
C2_EmailUnique ==
    \A r1, r2 \in store : r1.email = r2.email => r1 = r2

\* C2 witness: two rows are live and an update that changes the email to
\* the other row's email has been refused.
C2_Witness ==
    /\ Cardinality(store) = 2
    /\ SentIs("update", HTTP_500_INTERNAL)
    /\ Supplied(sent.req.body, "email")
    /\ sent.resp.detail = "IntegrityError"

\* C3: a create that reaches the store while a live row has its email
\* fails (the response is not 201) and leaves the store unchanged; of two
\* concurrent creates with the same email the one that commits second
\* meets the first one's row and fails.
C3_DuplicateCreateFails ==
    [][\A p \in Clients :
         ( /\ pc[p] = "create_commit" /\ pc'[p] # "create_commit"
           /\ \E r \in store : r.email = req[p].body.email )
         => ( /\ store' = store
              /\ Answered(p)
              /\ sent'.resp.status # HTTP_201_CREATED
              /\ sent'.resp.status = HTTP_500_INTERNAL )]_vars

\* C3 witness: two creates with the same email in flight together, one has
\* inserted its row and the other has been refused.
C3_Witness ==
    \E q \in Clients :
        /\ q # sent.client
        /\ SentIs("create", HTTP_500_INTERNAL)
        /\ sent.resp.detail = "IntegrityError"
        /\ pc[q] = "create_refresh"
        /\ req[q].body.email = sent.req.body.email
        /\ \E r \in store : r.id = req[q].id /\ r.email = req[q].body.email

\* C4: a create or an update whose body supplies a salary that is zero or
\* negative is answered 422 and changes nothing in the store.
C4_NonPositiveSalaryRejected ==
    [][\A p \in Clients :
         ( /\ Received(p)
           /\ Arrival(p).op \in {"create", "update"}
           /\ Supplied(Arrival(p).body, "salary")
           /\ Arrival(p).body.salary <= 0 )
         => ( /\ Answered(p)
              /\ sent'.resp.status = HTTP_422_UNPROCESSABLE
              /\ store' = store )]_vars

\* C4 witness: an update of a live row with a non-positive salary has been
\* answered 422.
C4_Witness ==
    /\ SentIs("update", HTTP_422_UNPROCESSABLE)
    /\ Supplied(sent.req.body, "salary") /\ sent.req.body.salary <= 0
    /\ get_employee(store, sent.req.id) # {}

\* C5: when requests run one after the other, a successful update returns
\* and stores, for every business field absent from the body, the value
\* the record had before the update, and for every supplied field the
\* supplied value.
C5_UpdateFrame ==
    [][\A p \in Clients :
         (Answered(p) /\ sent'.req.op = "update" /\ sent'.resp.status = HTTP_200_OK)
         => /\ get_employee(store', sent'.req.id) # {}
            /\ LET before == sent'.req.ent[1]
                   returned == sent'.resp.body[1]
                   stored == TheRow(store', sent'.req.id)
                   b == sent'.req.body
               IN \A k \in SchemaFields :
                     IF k \in b.set
                       THEN returned[k] = b[k] /\ stored[k] = b[k]
                       ELSE returned[k] = before[k] /\ stored[k] = before[k]]_vars

\* C5 witness: an update carrying only a new salary has succeeded.
C5_Witness ==
    /\ SentIs("update", HTTP_200_OK)
    /\ sent.req.body.set = {"salary"}
    /\ sent.resp.body[1].salary # sent.req.ent[1].salary
    /\ sent.resp.body[1].name = sent.req.ent[1].name

\* C6: in the state a successful delete (204) leaves, a get of the same id
\* answers 404 and the list holds no record with that id.
C6_DeleteThenGet ==
    [][\A p \in Clients :
         ( /\ pc[p] = "delete_commit" /\ Answered(p)
           /\ sent'.resp.status = HTTP_204_NO_CONTENT )
         => ( /\ GetResult(store', req[p].id).status = HTTP_404_NOT_FOUND
              /\ LET listed == ListResult(store').body
                 IN \A i \in 1..Len(listed) : listed[i].id # req[p].id )]_vars

\* C6 witness: a get of the id of a record that was created and then
\* deleted has answered 404.
C6_Witness ==
    /\ SentIs("get", HTTP_404_NOT_FOUND)
    /\ \E i \in 1..Len(issued) : issued[i] = sent.req.id
    /\ nreq >= 2

\* C7: an update with an accepted body, or a delete, addressed to an id
\* that is not in the store answers 404 "Employee not found" and leaves the
\* store unchanged.
C7_MissingIdNotFound ==
    [][\A p \in Clients :
         ( /\ Received(p)
           /\ \/ Arrival(p).op = "delete"
              \/ Arrival(p).op = "update" /\ EmployeeUpdateErrors(Arrival(p).body) = {}
           /\ \A r \in store : r.id # Arrival(p).id )
         => ( /\ Answered(p)
              /\ sent'.resp.status = HTTP_404_NOT_FOUND
              /\ sent'.resp.detail = "Employee not found"
              /\ store' = store )]_vars

\* C7 witness: an update of an id that is not in a non-empty store has
\* answered 404.
C7_Witness ==
    /\ SentIs("update", HTTP_404_NOT_FOUND)
    /\ sent.req.body.set # {}
    /\ store # {}
    /\ \A r \in store : r.id # sent.req.id

\* C8: a create or update whose body violates a field constraint is
\* answered 422 before any statement has been sent to the store; an update
\* with such a body addressed to an id that does not exist gets the 422,
\* not the 404.
C8_ValidationFirst ==
    [][\A p \in Clients :
         ( /\ Received(p)
           /\ \/ Arrival(p).op = "create" /\ EmployeeCreateErrors(Arrival(p).body) # {}
              \/ Arrival(p).op = "update" /\ EmployeeUpdateErrors(Arrival(p).body) # {} )
         => ( /\ Answered(p)
              /\ sent'.resp.status = HTTP_422_UNPROCESSABLE
              /\ sent'.req.sql = 0
              /\ store' = store )]_vars

\* C8 witness: an update with an invalid body addressed to an id that is
\* not in the store has answered 422.
C8_Witness ==
    /\ SentIs("update", HTTP_422_UNPROCESSABLE)
    /\ EmployeeUpdateErrors(sent.req.body) # {}
    /\ \A r \in store : r.id # sent.req.id
    /\ sent.req.sql = 0

\* The commit of p's update goes through and the row is live after it.
UpdateCommitted(p) ==
    /\ pc[p] = "update_commit" /\ pc'[p] = "update_refresh"
    /\ get_employee(store', req[p].id) # {}

\* C9 as stated: every update whose commit succeeds sets updated_at to the
\* time of the commit, whatever its body.
C9_EveryUpdateRefreshes ==
    [][\A p \in Clients :
         UpdateCommitted(p) => TheRow(store', req[p].id).updated_at = clock']_vars

\* C9 amended: an update that supplies at least one value different from
\* the value it read sets updated_at to the time of the commit; an update
\* with an empty body, or whose supplied values all equal the values it
\* read, sends no UPDATE and leaves the row, updated_at included, as it is.
C9_ChangingUpdateRefreshes ==
    [][\A p \in Clients :
         UpdateCommitted(p)
         => IF ChangedKeys(req[p].ent[1], req[p].body) # {}
              THEN TheRow(store', req[p].id).updated_at = clock'
              ELSE store' = store]_vars

\* C9 witness: an update that changed a field after time had passed has
\* returned a record whose updated_at is later than its created_at.
C9_Witness ==
    /\ SentIs("update", HTTP_200_OK)
    /\ ChangedKeys(sent.req.ent[1], sent.req.body) # {}
    /\ sent.resp.body[1].updated_at = clock
    /\ sent.resp.body[1].updated_at > sent.resp.body[1].created_at

\* C10: no step of an update, whatever keys its body carries, changes the
\* id or the created_at of any row.
C10_IdAndCreatedAtKept ==
    [][\A p \in Clients :
         ( \/ Received(p) /\ Arrival(p).op = "update"
           \/ req[p].op = "update" /\ req'[p] # req[p] )
         => { <<r.id, r.created_at>> : r \in store' }
              = { <<r.id, r.created_at>> : r \in store }]_vars

\* C10 witness: an update whose body carries id and created_at keys with
\* other values has succeeded and the record still has the id it was
\* addressed by and the created_at it had.
C10_Witness ==
    /\ SentIs("update", HTTP_200_OK)
    /\ ExtraKeys \subseteq sent.req.body.set
    /\ sent.req.body.id # sent.req.id
    /\ sent.resp.body[1].id = sent.req.id
    /\ sent.req.body.created_at # sent.req.ent[1].created_at
    /\ sent.resp.body[1].created_at = sent.req.ent[1].created_at

\* The ids of a list of records, in the order of the list.
IdsOf(l) == [i \in 1..Len(l) |-> l[i].id]

\* The ids of rows that the step inserts.
Inserted == { r.id : r \in store' } \ { r.id : r \in store }

\* C11: a list answers 200 with exactly the live rows, each once and with
\* its current values (the empty list when there are none), and the order
\* of the listing is the order of creation: whatever a step does, the
\* listing after it is the listing before it without the deleted records,
\* with the record the step inserts at its end.
C11_ListLiveInCreationOrder ==
    [][/\ \A p \in Clients :
            (Answered(p) /\ sent'.req.op = "list")
            => LET l == sent'.resp.body
               IN /\ sent'.resp.status = HTTP_200_OK
                  /\ Len(l) = Cardinality(store')
                  /\ { l[i] : i \in 1..Len(l) } = store'
                  /\ l = ListResult(store').body
       /\ Cardinality(Inserted) <= 1
       /\ IdsOf(ListResult(store').body)
            = SelectSeq(IdsOf(ListResult(store).body),
                        LAMBDA i : get_employee(store', i) # {})
                \o (IF Inserted = {} THEN <<>> ELSE <<CHOOSE i \in Inserted : TRUE>>)]_vars

\* C11 witness: after a second record has been created, a list has
\* answered both records, the older one first.
C11_Witness ==
    /\ SentIs("list", HTTP_200_OK)
    /\ Len(sent.resp.body) = 2
    /\ sent.resp.body[1] = SeedRow
    /\ sent.resp.body[2].created_at >= sent.resp.body[1].created_at
    /\ Len(issued) = 2 /\ issued[2] = sent.resp.body[2].id

\* "normalized to Title Case" (the create handler's docstring), as
\* str.title() maps the department values sent: the first letter of a word
\* in upper case, the others in lower case.
TitleCase(d) ==
    CASE d = "eng" -> "Eng"
      [] d = "Eng" -> "Eng"
      [] OTHER -> d

\* The four business fields of a record or of a body.
Four(r) == <<r.name, r.email, r.department, r.salary>>

\* C12 as stated: a create with a valid payload answers 201 with a record
\* that has the payload's four fields, and a get of the returned id then
\* answers a record with that id and the same four fields.
C12_CreateGetRoundTrip ==
    [][\A p \in Clients :
         ( /\ Answered(p) /\ sent'.req.op = "create"
           /\ EmployeeCreateErrors(sent'.req.body) = {} )
         => /\ sent'.resp.status = HTTP_201_CREATED
            /\ Len(sent'.resp.body) = 1
            /\ sent'.resp.body[1].id = sent'.req.id
            /\ Four(sent'.resp.body[1]) = Four(sent'.req.body)
            /\ LET got == GetResult(store', sent'.req.id)
               IN /\ got.status = HTTP_200_OK
                  /\ got.body[1].id = sent'.req.id
                  /\ Four(got.body[1]) = Four(sent'.req.body)]_vars

\* C12 amended: a create with a valid payload reaches the store; unless a
\* live row has its email, its commit inserts, under an id no live row
\* has, a row with the payload's four fields and the time of the commit as
\* created_at; a create that answers 201 returns the row stored under that
\* id at that moment, which is the record a get of the id answers, and its
\* four fields are the payload's whenever the row is still as inserted.
C12_CreatedRowRoundTrip ==
    [][\A p \in Clients :
         /\ ( /\ Received(p) /\ Arrival(p).op = "create"
              /\ EmployeeCreateErrors(Arrival(p).body) = {} )
            => pc'[p] = "create_commit"
         /\ (pc[p] = "create_commit" /\ pc'[p] # "create_commit")
            => IF \E r \in store : r.email = req[p].body.email
                 THEN pc'[p] = "idle" /\ store' = store
                 ELSE /\ pc'[p] = "create_refresh"
                      /\ get_employee(store, req'[p].id) = {}
                      /\ \E r \in store' :
                           /\ store' = store \cup {r}
                           /\ r.id = req'[p].id
                           /\ Four(r) = Four(req[p].body)
                           /\ r.created_at = clock'
         /\ ( /\ Answered(p) /\ sent'.req.op = "create"
              /\ sent'.resp.status = HTTP_201_CREATED )
            => LET returned == sent'.resp.body[1]
                   id == sent'.req.id
               IN /\ returned.id = id
                  /\ GetResult(store', id) = Response(HTTP_200_OK, "", <<returned>>)
                  /\ TheRow(store', id) = sent'.req.ent[1]
                       => Four(returned) = Four(sent'.req.body)]_vars

\* C12 witness: a create has answered 201 with a record that has the
\* payload's four fields and a get of its id answers the same record.
C12_Witness ==
    /\ SentIs("create", HTTP_201_CREATED)
    /\ Four(sent.resp.body[1]) = Four(sent.req.body)
    /\ sent.resp.body[1].id = sent.req.id
    /\ sent.resp.body[1].created_at > 0
    /\ GetResult(store, sent.req.id).body = sent.resp.body

\* C13: the validation of a create body reports exactly the fields that
\* are missing (or null) or against their constraint, all of them
\* together; the body is accepted exactly when the four fields are
\* present, name has 1..100 characters, department 1..50, email has valid
\* syntax and salary > 0, and is answered 422 otherwise.
C13_CreateValidationPerField ==
    validation.status # "checking"
    => LET b == validation.body
           present(k) == k \in b.set /\ k \notin b.nulls
           failing ==
               { k \in {"name", "email", "department", "salary"} :
                   \/ ~present(k)
                   \/ k = "name" /\ (Len(b.name) < 1 \/ Len(b.name) > 100)
                   \/ k = "department"
                        /\ (Len(b.department) < 1 \/ Len(b.department) > 50)
                   \/ k = "email" /\ ~IsEmailStr(b.email)
                   \/ k = "salary" /\ ~(b.salary > 0) }
       IN /\ validation.errors = failing
          /\ validation.status = (IF failing = {} THEN "accepted" ELSE "422")
          /\ validation.status = "accepted"
               <=> ( /\ \A k \in {"name", "email", "department", "salary"} : present(k)
                     /\ Len(b.name) \in 1..100
                     /\ Len(b.department) \in 1..50
                     /\ IsEmailStr(b.email)
                     /\ b.salary > 0 )
          /\ EmployeeCreateErrors(b) = validation.errors
          /\ (CreateOutcome(b) = "422") <=> (validation.status = "422")

\* C13 witness: a body whose name is one character too long, whose salary
\* is zero and whose department is missing has been rejected with the
\* three fields reported, while its email passed.
C13_Witness ==
    /\ validation.status = "422"
    /\ Len(validation.body.name) = NameMaxLength + 1
    /\ validation.body.set = {"name", "email", "salary"}
    /\ validation.body.nulls = {}
    /\ validation.body.salary = 0
    /\ validation.errors = {"name", "department", "salary"}

\* C14: a create stores and returns the department in Title Case: the row
\* its commit inserts, and the record its 201 returns, carry the Title Case
\* form of the payload's department.
C14_DepartmentTitleCased ==
    [][\A p \in Clients :
         /\ (pc[p] = "create_commit" /\ pc'[p] = "create_refresh")
            => TheRow(store', req'[p].id).department
                 = TitleCase(req[p].body.department)
         /\ ( /\ Answered(p) /\ sent'.req.op = "create"
              /\ sent'.resp.status = HTTP_201_CREATED )
            => sent'.resp.body[1].department
                 = TitleCase(sent'.req.body.department)]_vars

\* C15: in every reachable state every stored record has a name of 1..100
\* characters, a department of 1..50 characters, an email and a salary
\* greater than zero, also after updates whose body supplies a field as
\* null (a null reads as the empty string, or zero for the salary).
C15_StoredRecordsValid ==
    \A r \in store :
        /\ Len(r.name) >= 1 /\ Len(r.name) <= 100
        /\ Len(r.department) >= 1 /\ Len(r.department) <= 50
        /\ r.email # "" /\ IsEmailStr(r.email)
        /\ r.salary > 0

\* C15 witness: an update supplying the name as null has reached the store
\* and been refused, and the record still has its name.
C15_Witness ==
    /\ SentIs("update", HTTP_500_INTERNAL)
    /\ "name" \in sent.req.body.nulls
    /\ sent.resp.detail = "IntegrityError"
    /\ sent.req.sql = 2
    /\ get_employee(store, sent.req.id) = {sent.req.ent[1]}
    /\ Len(sent.req.ent[1].name) >= 1

\* The commit of client p's request has written to the store: the handler
\* is past `await self.db.commit()` of a create, or of an update that had
\* a change to flush.
Persisted(p) ==
    \/ pc[p] = "create_refresh"
    \/ pc[p] = "update_refresh" /\ ChangedKeys(req[p].ent[1], req[p].body) # {}

\* C16: a create, update or delete is one unit: a request that is answered
\* with a failure has written nothing to the store (in particular no
\* failure is raised by the refresh that follows a commit that wrote), a
\* step that fails leaves the store as it was, and a request answered with
\* success went through its commit.
C16_WholeUnit ==
    [][\A p \in Clients :
         /\ ( /\ Answered(p)
              /\ sent'.req.op \in {"create", "update", "delete"}
              /\ sent'.resp.status \notin
                   {HTTP_200_OK, HTTP_201_CREATED, HTTP_204_NO_CONTENT} )
            => (~Persisted(p) /\ store' = store)
         /\ ( /\ Answered(p)
              /\ sent'.resp.status \in
                   {HTTP_200_OK, HTTP_201_CREATED, HTTP_204_NO_CONTENT} )
            => CASE sent'.req.op = "create" -> pc[p] = "create_refresh"
                 [] sent'.req.op = "update" -> pc[p] = "update_refresh"
                 [] sent'.req.op = "delete" ->
                      pc[p] = "delete_commit" /\ get_employee(store', sent'.req.id) = {}
                 [] OTHER -> TRUE]_vars

\* Two updates of one id are the only requests received, client q's has
\* answered 200 and client p's has committed and is about to read the
\* record back.
TwoUpdatesDone(p, q) ==
    /\ p # q /\ nreq = 2
    /\ sent.client = q /\ SentIs("update", HTTP_200_OK)
    /\ pc[p] = "update_refresh" /\ req[p].id = sent.req.id

\* C17: when two updates of the same record run concurrently and both
\* commit, the record is there for both to return and every field that
\* exactly one of them supplied holds that update's value, every field
\* both supplied holds the value of one of the two.
C17_NoLostUpdate ==
    \A p, q \in Clients :
        TwoUpdatesDone(p, q)
        => /\ get_employee(store, sent.req.id) # {}
           /\ LET r == TheRow(store, sent.req.id)
                  a == req[p].body
                  b == sent.req.body
              IN \A k \in SchemaFields :
                    /\ (k \in a.set /\ k \notin b.set) => r[k] = a[k]
                    /\ (k \in b.set /\ k \notin a.set) => r[k] = b[k]
                    /\ (k \in a.set /\ k \in b.set) => r[k] \in {a[k], b[k]}

\* C17 witness: two updates have read the same record before either
\* committed, one supplying a new salary and the other a new name, and the
\* record holds both.
C17_Witness ==
    \E p, q \in Clients :
        /\ TwoUpdatesDone(p, q)
        /\ req[p].ent = sent.req.ent
        /\ req[p].body.set = {"salary"} /\ sent.req.body.set = {"name"}
        /\ req[p].body.salary # req[p].ent[1].salary
        /\ TheRow(store, sent.req.id).salary = req[p].body.salary
        /\ TheRow(store, sent.req.id).name = sent.req.body.name

\* C18 as stated: a delete reports success (204) only when it removes the
\* record, so that of two concurrent deletes of one record one answers 204
\* and the other, which finds the record gone, answers 404.
C18_ExactlyOneDelete ==
    [][\A p \in Clients :
         (Answered(p) /\ sent'.req.op = "delete")
         => IF get_employee(store, sent'.req.id) # {}
              THEN /\ sent'.resp.status = HTTP_204_NO_CONTENT
                   /\ get_employee(store', sent'.req.id) = {}
              ELSE /\ sent'.resp.status = HTTP_404_NOT_FOUND
                   /\ store' = store]_vars

\* C18 amended: a delete answers by what it read: 404, with nothing
\* written, when the record is absent at its read, and 204 otherwise, also
\* when another delete has removed the record between its read and its
\* commit; after a 204 the record is absent and no other record has gone.
C18_DeleteReportsItsRead ==
    [][\A p \in Clients :
         /\ (Received(p) /\ Arrival(p).op = "delete")
            => IF get_employee(store, Arrival(p).id) = {}
                 THEN /\ Answered(p)
                      /\ sent'.resp.status = HTTP_404_NOT_FOUND
                      /\ store' = store
                 ELSE pc'[p] = "delete_commit" /\ store' = store
         /\ (pc[p] = "delete_commit" /\ pc'[p] # "delete_commit")
            => /\ Answered(p)
               /\ sent'.resp.status = HTTP_204_NO_CONTENT
               /\ get_employee(store', req[p].id) = {}
               /\ store' = { r \in store : r.id # req[p].id }]_vars

\* C18 witness: two deletes of one record have both read it, one has
\* committed and answered 204, and the other is about to commit with the
\* record gone.
C18_Witness ==
    \E p \in Clients :
        /\ p # sent.client
        /\ SentIs("delete", HTTP_204_NO_CONTENT)
        /\ pc[p] = "delete_commit"
        /\ req[p].id = sent.req.id
        /\ get_employee(store, req[p].id) = {}

\* The body passes EmployeeUpdate and supplies no field as null.
ValidUpdate(b) == EmployeeUpdateErrors(b) = {} /\ b.nulls = {}

\* C19 as stated: an update with a valid payload that meets a delete of
\* its record either returns the updated record, from a store that still
\* holds it, or NotFound: when the record is gone by the time the update
\* is answered the answer is NotFound, never another failure.
C19_UpdatedOrNotFound ==
    [][\A p \in Clients :
         (Answered(p) /\ sent'.req.op = "update" /\ ValidUpdate(sent'.req.body))
         => IF get_employee(store', sent'.req.id) = {}
              THEN sent'.resp.status = HTTP_404_NOT_FOUND
              ELSE sent'.resp.status = HTTP_200_OK
                     => sent'.resp.body = <<TheRow(store', sent'.req.id)>>]_vars

\* C19 amended: an update with a valid payload returns the updated record
\* only from a store that holds it (the delete has not committed yet) and
\* NotFound only when the record is absent at its read; when the delete
\* commits after the update's read, the update ends in a store error (500):
\* at its commit, with nothing written, when it has a change to write, and
\* otherwise at its refresh, also when its own write had been committed;
\* a delete leaves the record absent.
C19_UpdateAgainstDelete ==
    [][\A p \in Clients :
         /\ (Answered(p) /\ sent'.req.op = "update" /\ ValidUpdate(sent'.req.body))
            => /\ sent'.resp.status
                    \in {HTTP_200_OK, HTTP_404_NOT_FOUND, HTTP_500_INTERNAL}
               /\ sent'.resp.status = HTTP_200_OK
                    => /\ pc[p] = "update_refresh"
                       /\ sent'.resp.body = <<TheRow(store', sent'.req.id)>>
                       /\ get_employee(store', sent'.req.id) # {}
               /\ sent'.resp.status = HTTP_404_NOT_FOUND
                    => /\ Received(p)
                       /\ get_employee(store, sent'.req.id) = {}
                       /\ store' = store
         /\ ( /\ pc[p] \in {"update_commit", "update_refresh"} /\ pc'[p] # pc[p]
              /\ ValidUpdate(req[p].body)
              /\ get_employee(store, req[p].id) = {} )
            => /\ store' = store
               /\ IF pc[p] = "update_commit" /\ ChangedKeys(req[p].ent[1], req[p].body) = {}
                    THEN pc'[p] = "update_refresh"
                    ELSE /\ Answered(p)
                         /\ sent'.resp.status = HTTP_500_INTERNAL
                         /\ sent'.resp.detail
                              = (IF pc[p] = "update_commit"
                                   THEN "StaleDataError" ELSE "InvalidRequestError")
         /\ (pc[p] = "delete_commit" /\ pc'[p] # pc[p])
            => get_employee(store', req[p].id) = {}]_vars

\* C19 witness: a delete has committed between the read and the commit of
\* an update with a valid payload, and the update has ended in the store's
\* error with the record absent.
C19_Witness ==
    /\ SentIs("update", HTTP_500_INTERNAL)
    /\ ValidUpdate(sent.req.body)
    /\ sent.resp.detail = "StaleDataError"
    /\ sent.req.ent # <<>>
    /\ get_employee(store, sent.req.id) = {}

====
